---- MODULE Spec2Model ----
(***************************************************************************)
(* Model of src/utils.rs of systemctl-tui: the directory resolvers, the    *)
(* logging initializer, the chrome://tracing performance-event recorder    *)
(* and the panic hook, run by a small number of concurrent execution       *)
(* contexts (threads) of one process.                                      *)
(*                                                                         *)
(* Every context has a program counter pc[c] naming the source line it is  *)
(* about to execute.  One action models one atomic step of the code: a     *)
(* load or store of the atomic flag, the once-only evaluation of the lazy  *)
(* static, one filesystem call (open, create, one write_all).              *)
(***************************************************************************)
EXTENDS Naturals, Sequences, FiniteSets

\* ------------------------------------------------------------------ bounds

\* log_perf_event calls made by the whole process
MaxPerfCalls == 2
\* log records emitted by application code (outside utils.rs)
MaxLogs == 1
\* the wall clock takes the values 0..MaxClock (seconds since process start)
MaxClock == 1
\* initialize_logging calls made by the whole process
MaxInitCalls == 2

\* get_data_dir / get_config_dir calls made by the host application
MaxResolves == 2

\* the execution contexts: the one driving the UI and a background one
Contexts == {"ui", "bg"}

\* ------------------------------------------------------------ environment

Unset == "<unset>"
NotUnicode == "<not-unicode>"

\* values of the SYSTEMCTL_TUI_DATA variable the model starts from
DataEnvValues == {Unset, "/override/data"}
\* values of the SYSTEMCTL_TUI_CONFIG variable the model starts from
ConfigEnvValues == {Unset}
\* values of the RUST_LOG variable the model starts from
RustLogValues == {Unset, "off", "error", "warn", "info", "debug", "trace"}
\* what ProjectDirs::from can answer: no home directory, or the project dirs
NoProjectDirs == [found |-> FALSE, data_local_dir |-> "", config_local_dir |-> ""]
ProjectDirsValues ==
  {NoProjectDirs,
   [found |-> TRUE, data_local_dir |-> "~/.local/share/systemctl-tui",
    config_local_dir |-> "~/.config/systemctl-tui"]}

\* Result<T>
Ok(v) == [ok |-> TRUE, val |-> v]
Err(e) == [ok |-> FALSE, val |-> e]

\* std::env::var: Err when the variable is unset or is not valid unicode
env_var(value) == IF value \in {Unset, NotUnicode} THEN Err(value) ELSE Ok(value)

\* a path cleaned up on the way in: the trailing separator is dropped
PathBuf_normalized(s) ==
  CASE s = "relative/data/" -> "relative/data"
    [] s = "/override/config/" -> "/override/config"
    [] OTHER -> s

\* PathBuf::from(s): the path is the string, byte for byte
PathBuf_from(s) == s

\* get_data_dir falling back to the working directory
get_data_dir_or_cwd(env, proj_dirs) ==
  IF env_var(env.SYSTEMCTL_TUI_DATA).ok
    THEN Ok(PathBuf_from(env_var(env.SYSTEMCTL_TUI_DATA).val))
    ELSE IF proj_dirs.found
      THEN Ok(proj_dirs.data_local_dir)
      ELSE Ok(".")

get_data_dir(env, proj_dirs) ==
  IF env_var(env.SYSTEMCTL_TUI_DATA).ok
    THEN Ok(PathBuf_from(env_var(env.SYSTEMCTL_TUI_DATA).val))
    ELSE IF proj_dirs.found
      THEN Ok(proj_dirs.data_local_dir)
      ELSE Err("Unable to find data directory for systemctl-tui")

get_config_dir(env, proj_dirs) ==
  IF env_var(env.SYSTEMCTL_TUI_CONFIG).ok
    THEN Ok(PathBuf_from(env_var(env.SYSTEMCTL_TUI_CONFIG).val))
    ELSE IF proj_dirs.found
      THEN Ok(proj_dirs.config_local_dir)
      ELSE Err("Unable to find config directory for systemctl-tui")

\* ------------------------------------------------------------- severities

\* tracing levels, most severe first; a LevelFilter n admits the levels 1..n
OFF == 0
ERROR == 1
WARN == 2
INFO == 3
DEBUG == 4
TRACE == 5
Levels == ERROR..TRACE

\* EnvFilter::builder().with_default_directive(LevelFilter::INFO.into())
\*   .from_env_lossy(): the level named by RUST_LOG, INFO when it names none
DefaultDirective == INFO
EnvFilter(rust_log) ==
  CASE rust_log = "off" -> OFF
    [] rust_log = "error" -> ERROR
    [] rust_log = "warn" -> WARN
    [] rust_log = "info" -> INFO
    [] rust_log = "debug" -> DEBUG
    [] rust_log = "trace" -> TRACE
    [] OTHER -> DefaultDirective

\* the maximum level handed to tui_logger::init_logger
TuiLoggerMaxLevel == DEBUG

\* what a layer with the filter lets through
Enabled(filter, level) == level <= filter

\* the file layer: the fmt layer behind its EnvFilter
FileLayerAdmits(filter, level) == Enabled(filter, level)

\* the tui layer: TuiTracingSubscriberLayer behind its EnvFilter, feeding the
\* logger that init_logger capped at its maximum level
TuiLayerAdmits(filter, level) ==
  Enabled(filter, level) /\ Enabled(TuiLoggerMaxLevel, level)

\* --------------------------------------------------------- trace file data

\* libc::EXIT_FAILURE
EXIT_FAILURE == 1

\* the events callers record: a name and a std::time::Duration in nanoseconds
PerfInputs ==
  {[name |-> "a", duration |-> 10000], [name |-> "b", duration |-> 20999]}

\* the conversion taken for Duration::as_millis
as_millis(nanos) == nanos \div 1000000

\* Duration::as_micros: whole microseconds, the rest is dropped
as_micros(nanos) == nanos \div 1000

NoEvent == [name |-> "", ts |-> 0, dur |-> 0]

\* The bytes of the trace file, in pieces.  Every piece but "body" is two
\* bytes long: "[\n", the "{\n" an event object starts with, and ",\n".
\* "body" is the rest of the object, from its name line to the closing brace.
OpenMarker == [k |-> "open", ev |-> NoEvent]
Separator == [k |-> "sep", ev |-> NoEvent]
Brace == [k |-> "brace", ev |-> NoEvent]
Body(ev) == [k |-> "body", ev |-> ev]

\* format!(r#"{{ "name": .., "cat": "PERF", "ph": "X", "ts": .., "dur": .. }}"#)
FormatEvent(name, now_micros, duration) ==
  <<Brace, Body([name |-> name, ts |-> now_micros, dur |-> as_micros(duration)])>>

\* directory.join(format!("systemctl-tui-trace-{timestamp_iso8601}.log"))
TracePath(directory, timestamp) == [dir |-> directory, stamp |-> timestamp]


\* ------------------------------------------------------------------- state

VARIABLES
  env,              \* the process environment: the three variables read here
  proj_dirs,        \* what ProjectDirs::from("com", "rgwood", ..) answers
  now,              \* the wall clock, seconds since the process started
  pc,               \* per context: the source line it is about to execute
  il,               \* per context: locals of initialize_logging
  lp,               \* per context: locals of log_perf_event
  TRACING_ENABLED,  \* static TRACING_ENABLED: AtomicBool
  TRACE_FILE_NAME,  \* the lazy static: <<>> until first dereferenced
  files,            \* the trace files on disk: path -> pieces
  dirs,             \* directories made by create_dir_all
  tui_logger,       \* tui_logger::init_logger has installed the log feed
  subscriber,       \* the global default subscriber: <<>> or <<its filters>>
  file_sink,        \* records handed to the non-blocking file writer
  flushed,          \* how many of them its worker has written to the log file
  feed,             \* records in the in-memory feed of the log viewer
  guard,            \* the WorkerGuard given to the caller: "none" or "held"
  hook,             \* the panic hook of initialize_panic_handler is installed
  hook_log,         \* per context: what the panic hook has done, in order
  stderr,           \* crash reports written to standard error, by context
  exit_status,      \* <<>> while the process runs, <<status>> once it exited
  perf_calls,       \* log_perf_event calls made so far
  returned,         \* the calls that found tracing enabled and have returned
  init_calls,       \* initialize_logging calls made so far
  init_results,     \* those that returned, in order: the argument, Ok or Err
  emitted,          \* log records emitted by application code, in order
  actors,           \* contexts that have called into the recorder or the init
  resolved          \* what the directory resolvers returned to the host, in order

envVars == <<env, proj_dirs>>
traceVars == <<TRACING_ENABLED, TRACE_FILE_NAME, files>>
logVars == <<tui_logger, subscriber, file_sink, flushed, feed, guard>>
panicVars == <<hook, hook_log, stderr, exit_status>>
histVars == <<perf_calls, returned, init_calls, init_results, emitted, actors,
             resolved>>
vars == <<env, proj_dirs, now, pc, il, lp, TRACING_ENABLED, TRACE_FILE_NAME,
          files, dirs, tui_logger, subscriber, file_sink, flushed, feed, guard,
          hook, hook_log, stderr, exit_status, perf_calls, returned,
          init_calls, init_results, emitted, actors, resolved>>

NoPath == TracePath("", 0)
NoIl == [enable_tracing |-> FALSE, directory |-> "", trace_file |-> NoPath,
         installed |-> FALSE, touched |-> FALSE]
NoLp == [name |-> "", duration |-> 0, init_done |-> FALSE, log_path |-> NoPath,
         event |-> <<>>]

\* the process at its start, whatever its environment: the statics hold
\* their initial values and nothing of utils.rs has run
Start ==
  /\ now = 0
  /\ pc = [c \in Contexts |-> "idle"]
  /\ il = [c \in Contexts |-> NoIl]
  /\ lp = [c \in Contexts |-> NoLp]
  /\ TRACING_ENABLED = FALSE
  /\ TRACE_FILE_NAME = <<>>
  /\ files = [p \in {} |-> <<>>]
  /\ dirs = {}
  /\ tui_logger = FALSE
  /\ subscriber = <<>>
  /\ file_sink = <<>>
  /\ flushed = 0
  /\ feed = <<>>
  /\ guard = "none"
  /\ hook = FALSE
  /\ hook_log = [c \in Contexts |-> <<>>]
  /\ stderr = <<>>
  /\ exit_status = <<>>
  /\ perf_calls = 0
  /\ returned = <<>>
  /\ init_calls = 0
  /\ init_results = <<>>
  /\ emitted = <<>>
  /\ actors = {}
  /\ resolved = <<>>

Init ==
  /\ env \in [SYSTEMCTL_TUI_DATA : DataEnvValues,
              SYSTEMCTL_TUI_CONFIG : ConfigEnvValues,
              RUST_LOG : RustLogValues]
  /\ proj_dirs \in ProjectDirsValues
  /\ Start

Running == exit_status = <<>>

\* how many initialize_logging calls have returned Ok(guard)
InitOks == Cardinality({i \in DOMAIN init_results : init_results[i].ok})

\* --------------------------------------------------------------- helpers

\* a tracing event reaching the global subscriber: each layer takes what its
\* own filter admits; with no subscriber installed the event goes nowhere
Dispatch(level, message) ==
  IF subscriber = <<>>
    THEN UNCHANGED <<file_sink, feed>>
    ELSE /\ file_sink' = IF FileLayerAdmits(subscriber[1].file_filter, level)
                           THEN Append(file_sink, [level |-> level, message |-> message])
                           ELSE file_sink
         /\ feed' = IF TuiLayerAdmits(subscriber[1].tui_filter, level)
                      THEN Append(feed, [level |-> level, message |-> message])
                      ELSE feed

\* hook_next with the report made before the terminal is restored
hook_next_report_first(line, restore_ok) ==
  CASE line = "panic" -> "ph32"
    [] line = "ph32" -> "ph28"
    [] line = "ph28" -> IF restore_ok THEN "ph33" ELSE "ph29"
    [] line = "ph29" -> "ph33"
    [] line = "ph33" -> "exited"

\* hook_next with a failed restoration ending the hook: no report
hook_next_restore_fatal(line, restore_ok) ==
  CASE line = "panic" -> "ph28"
    [] line = "ph28" -> IF restore_ok THEN "ph32" ELSE "ph33"
    [] line = "ph29" -> "ph32"
    [] line = "ph32" -> "ph33"
    [] line = "ph33" -> "exited"

\* hook_next without the process::exit: the hook returns and the thread unwinds
hook_next_returns(line, restore_ok) ==
  CASE line = "panic" -> "ph28"
    [] line = "ph28" -> IF restore_ok THEN "ph32" ELSE "ph29"
    [] line = "ph29" -> "ph32"
    [] line = "ph32" -> "unwound"
    [] line = "ph33" -> "exited"

\* the order of the panic hook's statements: the line that follows `line`
\* ("panic" is the entry), given how terminal::exit() answered
hook_next(line, restore_ok) ==
  CASE line = "panic" -> "ph28"
    [] line = "ph28" -> IF restore_ok THEN "ph32" ELSE "ph29"
    [] line = "ph29" -> "ph32"
    [] line = "ph32" -> "ph33"
    [] line = "ph33" -> "exited"

HookLines == {"ph28", "ph29", "ph32", "ph33"}

\* a failed unwrap that is let go: the function returns to its caller
Raise_swallowed(c) ==
  /\ pc' = [pc EXCEPT ![c] = "idle"]
  /\ il' = [il EXCEPT ![c] = NoIl]
  /\ lp' = [lp EXCEPT ![c] = NoLp]

\* A panic in context c: with the hook installed the hook runs on c; with
\* the default hook the thread unwinds and is gone.  Either way the frames
\* of the function that panicked, and their locals, are not used again.
Raise(c) ==
  /\ pc' = [pc EXCEPT ![c] = IF hook THEN hook_next("panic", TRUE) ELSE "unwound"]
  /\ il' = [il EXCEPT ![c] = NoIl]
  /\ lp' = [lp EXCEPT ![c] = NoLp]

\* a path computed afresh at every use instead of once
eager_deref(cell, initializer) == <<initializer>>

\* Dereferencing a lazy static: the initializer runs once, on first use
lazy_static_deref(cell, initializer) ==
  IF cell = <<>> THEN <<initializer>> ELSE cell

\* the trace file placed in the config directory
TraceFileNameInit_config == TracePath(get_config_dir(env, proj_dirs).val, now)

\* the initializer of TRACE_FILE_NAME
TraceFileNameInit == TracePath(get_data_dir(env, proj_dirs).val, now)

\* a file after open(.., create) or File::create of path p with the content
WithFile(p, content) ==
  [q \in DOMAIN files \cup {p} |-> IF q = p THEN content ELSE files[q]]

\* write_all through a handle opened with append(true): at the end of file
AppendWrite(content, pieces) == content \o pieces

\* write_all of one two-byte piece through a fresh File::create handle: at
\* offset 0, over whatever two bytes are there
WriteAtStart(content, piece) ==
  IF content = <<>> THEN <<piece>> ELSE <<piece>> \o Tail(content)


\* ------------------------------------------------------ initialize_logging

\* il_next with the tracing block ahead of the logger installation
il_next_trace_first(line, enable_tracing) ==
  CASE line = "call" -> "il60"
    [] line = "il60" -> "il61"
    [] line = "il61" -> "il65"
    [] line = "il65" -> IF enable_tracing THEN "il87" ELSE "il79"
    [] line = "il87" -> "il88"
    [] line = "il88" -> "il89"
    [] line = "il89" -> "il79"
    [] line = "il79" -> "il84"
    [] line = "il84" -> "il93"
    [] line = "il93" -> "return"

\* il_next with the data directory created last, after the installation
il_next_dirs_late(line, enable_tracing) ==
  CASE line = "call" -> "il60"
    [] line = "il60" -> "il65"
    [] line = "il65" -> "il79"
    [] line = "il79" -> "il84"
    [] line = "il84" -> "il61"
    [] line = "il61" -> IF enable_tracing THEN "il87" ELSE "il93"
    [] line = "il87" -> "il88"
    [] line = "il88" -> "il89"
    [] line = "il89" -> "il93"
    [] line = "il93" -> "return"

\* The order of the statements of initialize_logging: the line that follows
\* `line` ("call" is the entry, "return" the Ok(guard) at the end).
il_next(line, enable_tracing) ==
  CASE line = "call" -> "il60"
    [] line = "il60" -> "il61"
    [] line = "il61" -> "il65"
    [] line = "il65" -> "il79"
    [] line = "il79" -> "il84"
    [] line = "il84" -> IF enable_tracing THEN "il87" ELSE "il93"
    [] line = "il87" -> "il88"
    [] line = "il88" -> "il89"
    [] line = "il89" -> "il93"
    [] line = "il93" -> "return"

IlGoto(c, line) ==
  pc' = [pc EXCEPT ![c] = il_next(line, il[c].enable_tracing)]

\* anyhow::Error: the message, what the message is about, the wrapped cause
NoError == [msg |-> "", about |-> "", source |-> ""]
\* Err(anyhow!(..)) of get_data_dir, passed on by `?`
ResolveError(msg) == [msg |-> msg, about |-> "", source |-> ""]
\* .context(format!("{directory:?} could not be created")) around the
\* io::Error of create_dir_all
CreateDirError(directory) ==
  [msg |-> "could not be created", about |-> directory, source |-> "io::Error"]
\* the SetLoggerError of tui_logger::init_logger, converted by `?`
SetLoggerError == [msg |-> "SetLoggerError", about |-> "", source |-> ""]

\* `?` on an Err: the call ends with the error, nothing else changes
IlReturnErr(c, error) ==
  /\ pc' = [pc EXCEPT ![c] = "idle"]
  /\ il' = [il EXCEPT ![c] = NoIl]
  /\ init_results' = Append(init_results, [enable_tracing |-> il[c].enable_tracing,
                                           ok |-> FALSE, error |-> error])

\* pub fn initialize_logging(enable_tracing: bool) -> Result<WorkerGuard>
initialize_logging(c) ==
  /\ Running
  /\ pc[c] = "idle"
  /\ init_calls < MaxInitCalls
  /\ \E enable_tracing \in BOOLEAN :
       /\ il' = [il EXCEPT ![c] = [NoIl EXCEPT !.enable_tracing = enable_tracing]]
       /\ pc' = [pc EXCEPT ![c] = il_next("call", enable_tracing)]
  /\ init_calls' = init_calls + 1
  /\ actors' = actors \cup {c}
  /\ UNCHANGED <<envVars, resolved, now, lp, traceVars, dirs, logVars, panicVars,
                 perf_calls, returned, init_results, emitted>>

\* let directory = get_data_dir()?;
il60(c) ==
  /\ Running
  /\ pc[c] = "il60"
  /\ IF get_data_dir(env, proj_dirs).ok
       THEN /\ il' = [il EXCEPT ![c].directory = get_data_dir(env, proj_dirs).val]
            /\ IlGoto(c, "il60")
            /\ UNCHANGED init_results
       ELSE IlReturnErr(c, ResolveError(get_data_dir(env, proj_dirs).val))
  /\ UNCHANGED <<envVars, resolved, now, lp, traceVars, dirs, logVars, panicVars,
                 perf_calls, returned, init_calls, emitted, actors>>

\* std::fs::create_dir_all(directory.clone()).context(..)?;
il61(c) ==
  /\ Running
  /\ pc[c] = "il61"
  /\ \E created \in BOOLEAN :
       IF created
         THEN /\ dirs' = dirs \cup {il[c].directory}
              /\ IlGoto(c, "il61")
              /\ UNCHANGED <<il, init_results>>
         ELSE /\ IlReturnErr(c, CreateDirError(il[c].directory))
              /\ UNCHANGED dirs
  /\ UNCHANGED <<envVars, resolved, now, lp, traceVars, logVars, panicVars,
                 perf_calls, returned, init_calls, emitted, actors>>

\* RollingFileAppender::new (panics when it cannot open the log file),
\* tracing_appender::non_blocking, and the file layer with its filter
il65(c) ==
  /\ Running
  /\ pc[c] = "il65"
  /\ \E opened \in BOOLEAN :
       IF opened THEN IlGoto(c, "il65") /\ UNCHANGED <<il, lp>> ELSE Raise(c)
  /\ UNCHANGED <<envVars, now, traceVars, dirs, logVars, panicVars, histVars>>

\* tui_logger::init_logger(tui_logger::LevelFilter::Debug)?; and the tui layer.
\* init_logger is log::set_logger underneath: Err once a logger is set.
il79(c) ==
  /\ Running
  /\ pc[c] = "il79"
  /\ IF tui_logger
       THEN /\ IlReturnErr(c, SetLoggerError)
            /\ UNCHANGED tui_logger
       ELSE /\ tui_logger' = TRUE
            /\ il' = [il EXCEPT ![c].installed = TRUE]
            /\ IlGoto(c, "il79")
            /\ UNCHANGED init_results
  /\ UNCHANGED <<envVars, resolved, now, lp, traceVars, dirs, subscriber, file_sink, flushed,
                 feed, guard, panicVars, perf_calls, returned, init_calls,
                 emitted, actors>>

\* tracing_subscriber::registry().with(file_layer).with(tui_layer).init();
\* init() panics when a global default subscriber is already set.  The file
\* layer writes through the appender of line 65, rooted at `directory`.
il84(c) ==
  /\ Running
  /\ pc[c] = "il84"
  /\ IF subscriber # <<>>
       THEN /\ Raise(c)
            /\ UNCHANGED subscriber
       ELSE /\ subscriber' = <<[file_filter |-> EnvFilter(env.RUST_LOG),
                                tui_filter |-> EnvFilter(env.RUST_LOG),
                                log_dir |-> il[c].directory]>>
            /\ il' = [il EXCEPT ![c].installed = TRUE]
            /\ IlGoto(c, "il84")
            /\ UNCHANGED lp
  /\ UNCHANGED <<envVars, now, traceVars, dirs, tui_logger, file_sink,
                 flushed, feed, guard, panicVars, histVars>>

\* TRACING_ENABLED.store(true, Relaxed);
il87(c) ==
  /\ Running
  /\ pc[c] = "il87"
  /\ TRACING_ENABLED' = TRUE
  /\ il' = [il EXCEPT ![c].touched = TRUE]
  /\ IlGoto(c, "il87")
  /\ UNCHANGED <<envVars, now, lp, TRACE_FILE_NAME, files, dirs, logVars,
                 panicVars, histVars>>

\* let mut trace_file = std::fs::File::create(&*TRACE_FILE_NAME).unwrap();
\* The first dereference runs the initializer, whose expect panics when
\* get_data_dir fails; File::create makes the file or truncates it.
il88(c) ==
  /\ Running
  /\ pc[c] = "il88"
  /\ IF TRACE_FILE_NAME = <<>> /\ ~get_data_dir(env, proj_dirs).ok
       THEN /\ Raise(c)
            /\ UNCHANGED <<TRACE_FILE_NAME, files>>
       ELSE /\ TRACE_FILE_NAME' = lazy_static_deref(TRACE_FILE_NAME, TraceFileNameInit)
            /\ \E created \in BOOLEAN :
                 IF created
                   THEN /\ files' = WithFile(TRACE_FILE_NAME'[1], <<>>)
                        /\ il' = [il EXCEPT ![c].trace_file = TRACE_FILE_NAME'[1],
                                            ![c].touched = TRUE]
                        /\ IlGoto(c, "il88")
                        /\ UNCHANGED lp
                   ELSE /\ Raise(c)
                        /\ UNCHANGED files
  /\ UNCHANGED <<envVars, now, TRACING_ENABLED, dirs, logVars, panicVars, histVars>>

\* trace_file.write_all(b"[\n").unwrap();  then trace_file is dropped
il89(c) ==
  /\ Running
  /\ pc[c] = "il89"
  /\ \E written \in BOOLEAN :
       IF written
         THEN /\ files' = WithFile(il[c].trace_file,
                                   WriteAtStart(files[il[c].trace_file], OpenMarker))
              /\ il' = [il EXCEPT ![c].touched = TRUE]
              /\ IlGoto(c, "il89")
              /\ UNCHANGED lp
         ELSE /\ Raise(c)
              /\ UNCHANGED files
  /\ UNCHANGED <<envVars, now, TRACING_ENABLED, TRACE_FILE_NAME, dirs,
                 logVars, panicVars, histVars>>

\* tracing::info!(directory, "Logging initialized");  Ok(guard)
il93(c) ==
  /\ Running
  /\ pc[c] = "il93"
  /\ Dispatch(INFO, "Logging initialized")
  /\ guard' = "held"
  /\ init_results' = Append(init_results, [enable_tracing |-> il[c].enable_tracing,
                                           ok |-> TRUE, error |-> NoError])
  /\ pc' = [pc EXCEPT ![c] = "idle"]
  /\ il' = [il EXCEPT ![c] = NoIl]
  /\ UNCHANGED <<envVars, resolved, now, lp, traceVars, dirs, tui_logger, subscriber, flushed,
                 panicVars, perf_calls, returned, init_calls, emitted, actors>>


\* ---------------------------------------------------------- log_perf_event

\* log_perf_event without its early return
lp_entry_unchecked(enabled) == "lp105"

\* if !TRACING_ENABLED.load(Relaxed) { return; }: where the call goes next
lp_entry(enabled) == IF ~enabled THEN "return" ELSE "lp105"

\* pub fn log_perf_event(event: &str, duration: std::time::Duration)
log_perf_event(c) ==
  /\ Running
  /\ pc[c] = "idle"
  /\ perf_calls < MaxPerfCalls
  /\ perf_calls' = perf_calls + 1
  /\ actors' = actors \cup {c}
  /\ \E input \in PerfInputs :
       IF lp_entry(TRACING_ENABLED) = "return"
         THEN UNCHANGED <<pc, lp>>
         ELSE /\ pc' = [pc EXCEPT ![c] = lp_entry(TRACING_ENABLED)]
              /\ lp' = [lp EXCEPT ![c] = [NoLp EXCEPT !.name = input.name,
                                                      !.duration = input.duration,
                                                      !.init_done = InitOks > 0]]
  /\ UNCHANGED <<envVars, resolved, now, il, traceVars, dirs, logVars, panicVars,
                 returned, init_calls, init_results, emitted>>

\* let log_path = &*TRACE_FILE_NAME; let system_time = SystemTime::now();
\* let event = format!(..);
lp105(c) ==
  /\ Running
  /\ pc[c] = "lp105"
  /\ IF TRACE_FILE_NAME = <<>> /\ ~get_data_dir(env, proj_dirs).ok
       THEN /\ Raise(c)
            /\ UNCHANGED TRACE_FILE_NAME
       ELSE /\ TRACE_FILE_NAME' = lazy_static_deref(TRACE_FILE_NAME, TraceFileNameInit)
            /\ lp' = [lp EXCEPT ![c].log_path = TRACE_FILE_NAME'[1],
                                ![c].event = FormatEvent(lp[c].name, now * 1000000,
                                                         lp[c].duration)]
            /\ pc' = [pc EXCEPT ![c] = "lp121"]
            /\ UNCHANGED il
  /\ UNCHANGED <<envVars, now, TRACING_ENABLED, files, dirs, logVars, panicVars,
                 histVars>>

\* let mut file = OpenOptions::new().append(true).create(true).open(log_path).unwrap();
lp121(c) ==
  /\ Running
  /\ pc[c] = "lp121"
  /\ \E opened \in BOOLEAN :
       IF opened
         THEN /\ files' = IF lp[c].log_path \in DOMAIN files
                            THEN files
                            ELSE WithFile(lp[c].log_path, <<>>)
              /\ pc' = [pc EXCEPT ![c] = "lp122"]
              /\ UNCHANGED <<il, lp>>
         ELSE /\ Raise(c)
              /\ UNCHANGED files
  /\ UNCHANGED <<envVars, now, TRACING_ENABLED, TRACE_FILE_NAME, dirs,
                 logVars, panicVars, histVars>>

\* file.write_all(event.as_bytes()).unwrap();
lp122(c) ==
  /\ Running
  /\ pc[c] = "lp122"
  /\ \E written \in BOOLEAN :
       IF written
         THEN /\ files' = WithFile(lp[c].log_path,
                                   AppendWrite(files[lp[c].log_path], lp[c].event))
              /\ pc' = [pc EXCEPT ![c] = "lp123"]
              /\ UNCHANGED <<il, lp>>
         ELSE /\ Raise(c)
              /\ UNCHANGED files
  /\ UNCHANGED <<envVars, now, TRACING_ENABLED, TRACE_FILE_NAME, dirs,
                 logVars, panicVars, histVars>>

\* file.write_all(b",\n").unwrap();  then the file is closed and the call returns
lp123(c) ==
  /\ Running
  /\ pc[c] = "lp123"
  /\ \E written \in BOOLEAN :
       IF written
         THEN /\ files' = WithFile(lp[c].log_path,
                                   AppendWrite(files[lp[c].log_path], <<Separator>>))
              /\ pc' = [pc EXCEPT ![c] = "idle"]
              /\ returned' = Append(returned, [name |-> lp[c].name,
                                               duration |-> lp[c].duration,
                                               init_done |-> lp[c].init_done])
              /\ lp' = [lp EXCEPT ![c] = NoLp]
              /\ UNCHANGED il
         ELSE /\ Raise(c)
              /\ UNCHANGED <<files, returned>>
  /\ UNCHANGED <<envVars, resolved, now, TRACING_ENABLED, TRACE_FILE_NAME, dirs,
                 logVars, panicVars, perf_calls, init_calls, init_results,
                 emitted, actors>>

\* -------------------------------------------------------------- panic hook

\* pub fn initialize_panic_handler(): std::panic::set_hook(..)
initialize_panic_handler(c) ==
  /\ Running
  /\ pc[c] = "idle"
  /\ hook' = TRUE
  /\ UNCHANGED <<envVars, now, pc, il, lp, traceVars, dirs, logVars, hook_log,
                 stderr, exit_status, histVars>>

\* an unrecoverable error in application code running on context c
AppPanic(c) ==
  /\ Running
  /\ pc[c] = "idle"
  /\ Raise(c)
  /\ UNCHANGED <<envVars, now, traceVars, dirs, logVars, panicVars, histVars>>

\* if let Err(r) = crate::terminal::exit() {
ph28(c) ==
  /\ Running
  /\ pc[c] = "ph28"
  /\ \E restore_ok \in BOOLEAN :
       /\ hook_log' = [hook_log EXCEPT
                         ![c] = Append(@, IF restore_ok THEN "restored"
                                                        ELSE "restore failed")]
       /\ pc' = [pc EXCEPT ![c] = hook_next("ph28", restore_ok)]
  /\ UNCHANGED <<envVars, now, il, lp, traceVars, dirs, logVars, hook, stderr,
                 exit_status, histVars>>

\*   error!("Unable to exit Terminal: {r:?}"); }
ph29(c) ==
  /\ Running
  /\ pc[c] = "ph29"
  /\ Dispatch(ERROR, "Unable to exit Terminal")
  /\ hook_log' = [hook_log EXCEPT ![c] = Append(@, "error!")]
  /\ pc' = [pc EXCEPT ![c] = hook_next("ph29", FALSE)]
  /\ UNCHANGED <<envVars, now, il, lp, traceVars, dirs, tui_logger, subscriber,
                 flushed, guard, hook, stderr, exit_status, histVars>>

\* Settings::auto()...create_panic_handler()(panic_info): the crash report
ph32(c) ==
  /\ Running
  /\ pc[c] = "ph32"
  /\ stderr' = Append(stderr, c)
  /\ hook_log' = [hook_log EXCEPT ![c] = Append(@, "report")]
  /\ pc' = [pc EXCEPT ![c] = hook_next("ph32", TRUE)]
  /\ UNCHANGED <<envVars, now, il, lp, traceVars, dirs, logVars, hook,
                 exit_status, histVars>>

\* std::process::exit(libc::EXIT_FAILURE);
ph33(c) ==
  /\ Running
  /\ pc[c] = "ph33"
  /\ exit_status' = <<EXIT_FAILURE>>
  /\ hook_log' = [hook_log EXCEPT ![c] = Append(@, "exit")]
  /\ pc' = [pc EXCEPT ![c] = hook_next("ph33", TRUE)]
  /\ UNCHANGED <<envVars, now, il, lp, traceVars, dirs, logVars, hook, stderr,
                 histVars>>

\* the whole hook, for fairness
PanicHook(c) == ph28(c) \/ ph29(c) \/ ph32(c) \/ ph33(c)

\* ------------------------------------------------------- the surroundings

\* the host application calls pub fn get_data_dir() on context c
call_get_data_dir(c) ==
  /\ Running
  /\ pc[c] = "idle"
  /\ Len(resolved) < MaxResolves
  /\ resolved' = Append(resolved, [fn |-> "get_data_dir",
                                    result |-> get_data_dir(env, proj_dirs)])
  /\ UNCHANGED <<envVars, now, pc, il, lp, traceVars, dirs, logVars, panicVars,
                 perf_calls, returned, init_calls, init_results, emitted, actors>>

\* the host application calls pub fn get_config_dir() on context c
call_get_config_dir(c) ==
  /\ Running
  /\ pc[c] = "idle"
  /\ Len(resolved) < MaxResolves
  /\ resolved' = Append(resolved, [fn |-> "get_config_dir",
                                    result |-> get_config_dir(env, proj_dirs)])
  /\ UNCHANGED <<envVars, now, pc, il, lp, traceVars, dirs, logVars, panicVars,
                 perf_calls, returned, init_calls, init_results, emitted, actors>>

\* application code on context c emits a log record (tracing::event!)
EmitLog(c) ==
  /\ Running
  /\ pc[c] = "idle"
  /\ Len(emitted) < MaxLogs
  /\ \E level \in Levels :
       /\ emitted' = Append(emitted, [level |-> level, installed |-> subscriber # <<>>])
       /\ Dispatch(level, "application")
  /\ UNCHANGED <<envVars, resolved, now, pc, il, lp, traceVars, dirs, tui_logger, subscriber,
                 flushed, guard, panicVars, perf_calls, returned, init_calls,
                 init_results, actors>>

\* the worker of the non-blocking writer writes one queued record to the file
WorkerFlush ==
  /\ Running
  /\ flushed < Len(file_sink)
  /\ flushed' = flushed + 1
  /\ UNCHANGED <<envVars, now, pc, il, lp, traceVars, dirs, tui_logger, subscriber,
                 file_sink, feed, guard, panicVars, histVars>>

\* time passes
Tick ==
  /\ Running
  /\ now < MaxClock
  /\ now' = now + 1
  /\ UNCHANGED <<envVars, pc, il, lp, traceVars, dirs, logVars, panicVars, histVars>>

\* The statements of initialize_logging after its entry
InitializeLoggingBody(c) ==
  \/ il60(c) \/ il61(c) \/ il65(c) \/ il79(c) \/ il84(c)
  \/ il87(c) \/ il88(c) \/ il89(c) \/ il93(c)

\* The statements of log_perf_event after its entry
LogPerfEventBody(c) == lp105(c) \/ lp121(c) \/ lp122(c) \/ lp123(c)

\* The whole process: every context may call every function of utils.rs, log,
\* or panic, at any time.
Next ==
  \/ \E c \in Contexts :
       \/ initialize_logging(c) \/ InitializeLoggingBody(c)
       \/ log_perf_event(c) \/ LogPerfEventBody(c)
       \/ initialize_panic_handler(c)
       \/ AppPanic(c)
       \/ PanicHook(c)
       \/ EmitLog(c)
       \/ call_get_data_dir(c) \/ call_get_config_dir(c)
  \/ WorkerFlush
  \/ Tick

Spec == Init /\ [][Next]_vars

\* The state space of Spec is checked in slices.  In each the host application
\* uses a part of utils.rs the way the application does: startup code on the
\* "ui" context initializes logging and installs the hook, and every context
\* records events, logs and may panic.

\* RUST_LOG left unset: the filters are the INFO default
InitDefaultFilter == Init /\ env.RUST_LOG = Unset

\* ... and no data override, on a platform that supplies the directories
InitPlatformDirs ==
  InitDefaultFilter /\ env.SYSTEMCTL_TUI_DATA = Unset /\ proj_dirs.found

\* The recorder: startup initializes logging while both contexts record
\* events.  No hook is installed, so a failed unwrap unwinds its thread.
NextRecorder ==
  \/ initialize_logging("ui") \/ InitializeLoggingBody("ui")
  \/ \E c \in Contexts : log_perf_event(c) \/ LogPerfEventBody(c)

SpecRecorder == InitDefaultFilter /\ [][NextRecorder]_vars

\* The recorder over time: startup initializes logging, the background
\* context records events, seconds pass.
NextClock ==
  \/ initialize_logging("ui") \/ InitializeLoggingBody("ui")
  \/ log_perf_event("bg") \/ LogPerfEventBody("bg")
  \/ Tick

SpecClock == InitDefaultFilter /\ [][NextClock]_vars

\* The panic path: startup initializes logging and installs the hook at some
\* point, both contexts record events, and panics come from application code
\* and from the unwraps of initialize_logging and log_perf_event.
NextPanic ==
  \/ initialize_logging("ui") \/ InitializeLoggingBody("ui")
  \/ initialize_panic_handler("ui")
  \/ \E c \in Contexts :
       \/ log_perf_event(c) \/ LogPerfEventBody(c)
       \/ AppPanic(c)
       \/ ph28(c) \/ ph29(c) \/ ph32(c) \/ ph33(c)

SpecPanic == InitPlatformDirs /\ [][NextPanic]_vars

\* The panic path with the scheduler's fairness: the panic hook runs on the
\* panicking thread, which the scheduler keeps running, so a hook that has
\* been entered goes on to its next statement.  Here only the background
\* context records events.
NextPanicFair ==
  \/ initialize_logging("ui") \/ InitializeLoggingBody("ui")
  \/ initialize_panic_handler("ui")
  \/ log_perf_event("bg") \/ LogPerfEventBody("bg")
  \/ \E c \in Contexts :
       \/ AppPanic(c)
       \/ ph28(c) \/ ph29(c) \/ ph32(c) \/ ph33(c)

SpecPanicFair ==
  /\ InitPlatformDirs
  /\ [][NextPanicFair]_vars
  /\ \A c \in Contexts : WF_vars(PanicHook(c))

\* Logging: any context initializes logging, under every RUST_LOG, and
\* contexts emit records of every level while the writer's worker flushes.
NextLogging ==
  \/ \E c \in Contexts :
       \/ initialize_logging(c) \/ InitializeLoggingBody(c)
       \/ EmitLog(c)
  \/ WorkerFlush

SpecLogging == Init /\ [][NextLogging]_vars

\* The resolvers alone, under every kind of value the two override variables
\* can hold: unset, not unicode, empty, relative, absolute.
ResolverDataValues == {Unset, NotUnicode, "", "relative/data/", "/override/data"}
ResolverConfigValues == {Unset, NotUnicode, "", "/override/config/"}

InitResolver ==
  /\ env \in [SYSTEMCTL_TUI_DATA : ResolverDataValues,
              SYSTEMCTL_TUI_CONFIG : ResolverConfigValues,
              RUST_LOG : {Unset}]
  /\ proj_dirs \in ProjectDirsValues
  /\ Start

NextResolver ==
  \E c \in Contexts : call_get_data_dir(c) \/ call_get_config_dir(c)

SpecResolver == InitResolver /\ [][NextResolver]_vars

\* The data directory in use: startup initializes logging with the log file
\* rooted in it, the background context records events into the trace file,
\* and the host asks get_data_dir for it.
NextDirs ==
  \/ initialize_logging("ui") \/ InitializeLoggingBody("ui")
  \/ log_perf_event("bg") \/ LogPerfEventBody("bg")
  \/ \E c \in Contexts : call_get_data_dir(c)

SpecDirs == InitDefaultFilter /\ [][NextDirs]_vars

\* The end of the process: startup initializes logging and installs the hook,
\* contexts log, the writer's worker flushes in the background, and a panic
\* takes the process through the hook to process::exit.
NextShutdown ==
  \/ initialize_logging("ui") \/ InitializeLoggingBody("ui")
  \/ initialize_panic_handler("ui")
  \/ \E c \in Contexts :
       \/ EmitLog(c)
       \/ AppPanic(c)
       \/ ph28(c) \/ ph29(c) \/ ph32(c) \/ ph33(c)
  \/ WorkerFlush

SpecShutdown == InitPlatformDirs /\ [][NextShutdown]_vars

\* Initialization alone: any context calls initialize_logging, at any time,
\* also while another call is under way.
NextInit ==
  \E c \in Contexts : initialize_logging(c) \/ InitializeLoggingBody(c)

SpecInit == InitDefaultFilter /\ [][NextInit]_vars

\* =================================================================== claims

\* --- the panic hook

IsRestore(step) == step \in {"restored", "restore failed"}

\* what a hook did first
FirstStep(log) == IF log = <<>> THEN "nothing" ELSE log[1]

\* in one context's hook: a restoration attempt before the report, and the
\* report before the exit
HookOrder(log) ==
  \A i \in DOMAIN log :
    /\ log[i] = "report" => \E j \in 1..(i - 1) : IsRestore(log[j])
    /\ log[i] = "exit" => \E j \in 1..(i - 1) : log[j] = "report"

\* C2: after a panic with the hook installed the steps come in the order
\* Restoring-Terminal, Reporting, Terminated: every crash report on stderr
\* follows a restoration attempt in the same hook, the process terminates only
\* after a crash report, and with the hook installed no panic bypasses it.
C2_HookOrder ==
  /\ [](/\ \A c \in Contexts : HookOrder(hook_log[c])
        /\ \A i \in DOMAIN stderr : \E j \in DOMAIN hook_log[stderr[i]] :
             IsRestore(hook_log[stderr[i]][j])
        /\ ~Running => stderr # <<>>)
  /\ [][\A c \in Contexts : (hook /\ pc'[c] = "unwound") => pc[c] = "unwound"]_vars

\* a panic ran the whole hook: restored, reported, exited
C2_Witness ==
  \E c \in Contexts :
    /\ hook_log[c] = <<"restored", "report", "exit">>
    /\ exit_status = <<EXIT_FAILURE>>

\* C3: a hook whose terminal restoration failed logs the failure, still writes
\* the crash report and still exits with the failure status.
C3_RestoreFailureSwallowed ==
  \A c \in Contexts :
    /\ (pc[c] = "exited" /\ FirstStep(hook_log[c]) = "restore failed") =>
         /\ hook_log[c] = <<"restore failed", "error!", "report", "exit">>
         /\ \E i \in DOMAIN stderr : stderr[i] = c
         /\ exit_status = <<EXIT_FAILURE>>
    /\ (pc[c] = "exited" /\ FirstStep(hook_log[c]) = "restored") =>
         /\ hook_log[c] = <<"restored", "report", "exit">>
         /\ exit_status = <<EXIT_FAILURE>>
    /\ (pc[c] \in {"ph29", "ph32", "ph33"}) => IsRestore(FirstStep(hook_log[c]))

\* the hook went through a failed restoration to the exit
C3_Witness ==
  \E c \in Contexts :
    /\ pc[c] = "exited"
    /\ hook_log[c] = <<"restore failed", "error!", "report", "exit">>
    /\ exit_status = <<EXIT_FAILURE>>

\* C4: a context that entered the hook never leaves it for application code
\* (it takes no step of log_perf_event, initialize_logging or logging again),
\* and the process ends up terminated with the failure status.
C4_HookNeverReturns ==
  /\ [][\A c \in Contexts :
          pc[c] \in HookLines \cup {"exited"} =>
            /\ pc'[c] \in HookLines \cup {"exited"}
            /\ lp'[c] = lp[c] /\ il'[c] = il[c]]_vars
  /\ \A c \in Contexts :
       (pc[c] \in HookLines) ~> (exit_status = <<EXIT_FAILURE>>)

\* the background context panicked in log_perf_event between its two writes
\* (the file ends with an object that has no separator) and ran the hook to
\* the exit
C4_Witness ==
  /\ pc["bg"] = "exited"
  /\ exit_status = <<EXIT_FAILURE>>
  /\ TRACE_FILE_NAME # <<>>
  /\ TRACE_FILE_NAME[1] \in DOMAIN files
  /\ files[TRACE_FILE_NAME[1]] # <<>>
  /\ files[TRACE_FILE_NAME[1]][Len(files[TRACE_FILE_NAME[1]])].k = "body"


\* --- the recorder

\* the pieces are whole records: "{\n", the rest of an object, ",\n", repeated
RECURSIVE WholeRecords(_)
WholeRecords(content) ==
  \/ content = <<>>
  \/ /\ Len(content) >= 3
     /\ content[1] = Brace
     /\ content[2].k = "body"
     /\ content[3] = Separator
     /\ WholeRecords(SubSeq(content, 4, Len(content)))

Quiescent == \A c \in Contexts : pc[c] = "idle"

\* C1: concurrent log_perf_event calls never interleave their writes.  Stated
\* for calls made after initialize_logging(true) returned: once every call
\* has returned, the trace file is the opening marker followed by whole
\* records, one per call that found tracing enabled.
C1_NoInterleaving ==
  (/\ Quiescent
   /\ TRACING_ENABLED
   /\ TRACE_FILE_NAME # <<>>
   /\ \A i \in DOMAIN returned : returned[i].init_done) =>
     /\ TRACE_FILE_NAME[1] \in DOMAIN files
     /\ files[TRACE_FILE_NAME[1]] # <<>>
     /\ files[TRACE_FILE_NAME[1]][1] = OpenMarker
     /\ WholeRecords(Tail(files[TRACE_FILE_NAME[1]]))
     /\ Len(files[TRACE_FILE_NAME[1]]) = 1 + 3 * Len(returned)

\* C5: a log_perf_event call that loads TRACING_ENABLED = false returns at
\* once: it resolves no path, opens, creates and writes no file, and changes
\* no process-wide state; and a context is inside the writing part of
\* log_perf_event only when it has loaded the flag as true.
C5_DisabledIsNoOp ==
  [][(perf_calls' # perf_calls /\ ~TRACING_ENABLED) =>
       /\ pc' = pc /\ lp' = lp
       /\ UNCHANGED <<traceVars, dirs, logVars, panicVars, envVars>>]_vars

\* calls were made with tracing disabled and nothing is on disk
C5_Witness ==
  /\ perf_calls >= 2
  /\ ~TRACING_ENABLED
  /\ DOMAIN files = {}
  /\ TRACE_FILE_NAME = <<>>

IsPrefix(s, t) == Len(s) <= Len(t) /\ SubSeq(t, 1, Len(s)) = s

\* C6: the trace file is created once and only appended to afterwards: no
\* step removes the file, truncates it or rewrites what it holds.
C6_CreatedOnceAppendOnly ==
  [][\A p \in DOMAIN files :
       p \in DOMAIN files' /\ IsPrefix(files[p], files'[p])]_vars


\* the record a call must have left in the file: an object with the call's
\* name whose dur is the whole microseconds of the call's duration
RecordOf(record, call) ==
  /\ record[1] = Brace
  /\ record[2].k = "body"
  /\ record[2].ev.name = call.name
  /\ record[2].ev.dur * 1000 <= call.duration
  /\ call.duration < (record[2].ev.dur + 1) * 1000
  /\ record[3] = Separator

\* C7: with tracing enabled by a successful initialize_logging(true) and one
\* context making all calls, whenever that context is between calls the file
\* is the "[" line followed by one record per returned call, in call order,
\* each with the call's name and duration in microseconds and its ",\n", and
\* nothing after the last record.
C7_SequentialFile ==
  \A c \in Contexts :
    (/\ actors = {c}
     /\ pc[c] = "idle"
     /\ TRACING_ENABLED
     /\ InitOks = 1) =>
       /\ TRACE_FILE_NAME # <<>>
       /\ TRACE_FILE_NAME[1] \in DOMAIN files
       /\ LET content == files[TRACE_FILE_NAME[1]]
          IN /\ Len(content) = 1 + 3 * Len(returned)
             /\ content[1] = OpenMarker
             /\ \A i \in DOMAIN returned :
                  RecordOf(SubSeq(content, 3 * i - 1, 3 * i + 1), returned[i])

\* one context enabled tracing and recorded a (10 us) and then b (20 us)
C7_Witness ==
  /\ Cardinality(actors) = 1
  /\ Quiescent
  /\ Len(returned) >= 2
  /\ returned[1].name = "a" /\ returned[2].name = "b"
  /\ LET content == files[TRACE_FILE_NAME[1]]
     IN /\ content[3].ev.dur = 10
        /\ content[6].ev.dur = 20

\* --- logging

\* the minimum severity RUST_LOG configures, INFO by default
ConfiguredMinimum ==
  CASE env.RUST_LOG = "off" -> OFF
    [] env.RUST_LOG = "error" -> ERROR
    [] env.RUST_LOG = "warn" -> WARN
    [] env.RUST_LOG = "debug" -> DEBUG
    [] env.RUST_LOG = "trace" -> TRACE
    [] OTHER -> INFO

ApplicationRecord(level) == [level |-> level, message |-> "application"]

InSink(sink, record) == \E i \in DOMAIN sink : sink[i] = record

\* C8: a record emitted once logging is initialized appears in both the file
\* sink and the in-memory feed when it is at or above the configured minimum
\* severity, and in neither when it is below, for every configured minimum.
C8_SameFilterBothSinks ==
  \A i \in DOMAIN emitted :
    emitted[i].installed =>
      IF emitted[i].level <= ConfiguredMinimum
        THEN /\ InSink(file_sink, ApplicationRecord(emitted[i].level))
             /\ InSink(feed, ApplicationRecord(emitted[i].level))
        ELSE /\ ~InSink(file_sink, ApplicationRecord(emitted[i].level))
             /\ ~InSink(feed, ApplicationRecord(emitted[i].level))

\* --- initialization happens once

\* C9: at most one initialize_logging call of a process returns Ok(guard);
\* every call after a successful one returns Err or panics, whatever its
\* argument; and a call that returns Err has not stored the flag nor created
\* or written the trace file.
C9_SingleInitialization ==
  /\ [](InitOks <= 1)
  /\ [][\A c \in Contexts :
          (pc[c] # "idle" /\ pc'[c] = "idle" /\ Len(init_results') > Len(init_results)
           /\ ~init_results'[Len(init_results')].ok) =>
            /\ ~il[c].touched
            /\ UNCHANGED traceVars]_vars

\* after a successful call, a call asking for tracing has returned Err and
\* tracing is still off and no trace file exists
C9_Witness ==
  /\ Len(init_results) = 2
  /\ init_results[1].ok /\ ~init_results[1].enable_tracing
  /\ ~init_results[2].ok /\ init_results[2].enable_tracing
  /\ ~TRACING_ENABLED
  /\ DOMAIN files = {}

\* C10: TRACING_ENABLED starts false and only ever goes from false to true;
\* TRACE_FILE_NAME, once evaluated, never changes; and every log_perf_event
\* call writes to that one path, so the process has at most one trace file.
C10_WriteOnce ==
  /\ ~TRACING_ENABLED /\ TRACE_FILE_NAME = <<>>
  /\ [][/\ TRACING_ENABLED => TRACING_ENABLED'
        /\ TRACE_FILE_NAME # <<>> => TRACE_FILE_NAME' = TRACE_FILE_NAME]_vars
  /\ [](/\ \A c \in Contexts :
             pc[c] \in {"lp121", "lp122", "lp123"} =>
               TRACE_FILE_NAME # <<>> /\ lp[c].log_path = TRACE_FILE_NAME[1]
        /\ Cardinality(DOMAIN files) <= 1)

\* two calls have written, the second after the clock moved past the second
\* the path was stamped with
C10_Witness ==
  /\ TRACING_ENABLED
  /\ TRACE_FILE_NAME # <<>>
  /\ TRACE_FILE_NAME[1].stamp < now
  /\ Len(returned) >= 2
  /\ \E i \in DOMAIN files[TRACE_FILE_NAME[1]] :
       /\ files[TRACE_FILE_NAME[1]][i].k = "body"
       /\ files[TRACE_FILE_NAME[1]][i].ev.ts = now * 1000000

\* --- the directory resolvers

\* a value std::env::var hands back: the variable is set and is unicode
ValidOverride(value) == value \notin {Unset, NotUnicode}

\* the override variable a resolver reads
OwnVariable(fn) ==
  IF fn = "get_data_dir" THEN env.SYSTEMCTL_TUI_DATA ELSE env.SYSTEMCTL_TUI_CONFIG

\* C11: with a valid override value in its variable, get_data_dir and
\* get_config_dir return exactly that value, whatever the platform lookup
\* answers and although no such directory exists; and the result of each does
\* not depend on the other resolver's variable.
C11_OverrideVerbatim ==
  \A i \in DOMAIN resolved :
    /\ ValidOverride(OwnVariable(resolved[i].fn)) =>
         resolved[i].result = Ok(OwnVariable(resolved[i].fn))
    /\ \A other \in ResolverDataValues \cup ResolverConfigValues :
         /\ resolved[i].fn = "get_data_dir" =>
              resolved[i].result =
                get_data_dir([env EXCEPT !.SYSTEMCTL_TUI_CONFIG = other], proj_dirs)
         /\ resolved[i].fn = "get_config_dir" =>
              resolved[i].result =
                get_config_dir([env EXCEPT !.SYSTEMCTL_TUI_DATA = other], proj_dirs)

\* both resolvers returned their overrides, one relative and one with a
\* trailing separator, on a platform without directories and with nothing
\* on disk
C11_Witness ==
  /\ ~proj_dirs.found
  /\ dirs = {}
  /\ Len(resolved) = 2
  /\ resolved[1] = [fn |-> "get_data_dir", result |-> Ok("relative/data/")]
  /\ resolved[2] = [fn |-> "get_config_dir", result |-> Ok("/override/config/")]

\* C12: without a readable override and without platform directories the
\* resolver returns Err; and no resolver call, whatever it returns, panics,
\* creates a directory or changes any other state of the process.
C12_ResolverErrNoEffects ==
  /\ [](\A i \in DOMAIN resolved :
          (~env_var(OwnVariable(resolved[i].fn)).ok /\ ~proj_dirs.found) =>
            ~resolved[i].result.ok)
  /\ [][resolved' # resolved =>
          UNCHANGED <<envVars, now, pc, il, lp, traceVars, dirs, logVars, panicVars>>]_vars

\* both resolvers returned Err and nothing was made on disk
C12_Witness ==
  /\ env.SYSTEMCTL_TUI_DATA = Unset
  /\ env.SYSTEMCTL_TUI_CONFIG = Unset
  /\ \E i \in DOMAIN resolved : resolved[i].fn = "get_data_dir" /\ ~resolved[i].result.ok
  /\ \E i \in DOMAIN resolved : resolved[i].fn = "get_config_dir" /\ ~resolved[i].result.ok
  /\ dirs = {}
  /\ DOMAIN files = {}
  /\ \A c \in Contexts : pc[c] = "idle"

\* C13: in a process whose environment and platform do not change, every
\* get_data_dir call returns the same result, so the directory the log file
\* is rooted in (resolved at line 60) and the directory of the trace file
\* (resolved when TRACE_FILE_NAME is first dereferenced) are one directory,
\* the one get_data_dir reports to the host.
C13_OneDataDirectory ==
  /\ \A i, j \in DOMAIN resolved : resolved[i].result = resolved[j].result
  /\ \A i \in DOMAIN resolved :
       /\ subscriber # <<>> => resolved[i].result = Ok(subscriber[1].log_dir)
       /\ TRACE_FILE_NAME # <<>> => resolved[i].result = Ok(TRACE_FILE_NAME[1].dir)
  /\ (subscriber # <<>> /\ TRACE_FILE_NAME # <<>>) =>
       subscriber[1].log_dir = TRACE_FILE_NAME[1].dir

\* logging is rooted in the platform's data directory, an event was recorded
\* into the trace file, and the host resolved the directory twice, before and
\* after
C13_Witness ==
  /\ subscriber # <<>>
  /\ subscriber[1].log_dir = "~/.local/share/systemctl-tui"
  /\ TRACE_FILE_NAME # <<>>
  /\ Len(returned) >= 1
  /\ Len(resolved) = 2
  /\ dirs # {}

\* --- the end of the process

\* C14: when the process has terminated through the panic hook, the guard
\* returned by initialize_logging has been released and every record handed
\* to the non-blocking writer has been written to the log file.
C14_GuardReleasedOnExit ==
  ~Running => (guard # "held" /\ flushed = Len(file_sink))

\* --- failures of initialize_logging and log_perf_event

\* the call's only outcome so far: Err for a directory that was not created
IsCreateDirFailure(result) ==
  /\ ~result.ok
  /\ result.error.msg = "could not be created"
  /\ result.error.source = "io::Error"

\* C15: an initialize_logging call whose create_dir_all fails returns an Err
\* that wraps the io error under a message naming the directory, having
\* installed nothing: it registered no logger, feed or subscriber, stored no
\* flag and touched no trace file, whatever enable_tracing was; and while
\* such failures are all that has happened, the process-wide state is as at
\* process start.
C15_CreateDirFailureInstallsNothing ==
  /\ [][\A c \in Contexts :
          (pc[c] = "il61" /\ pc'[c] = "idle") =>
            /\ init_results' = Append(init_results,
                 [enable_tracing |-> il[c].enable_tracing, ok |-> FALSE,
                  error |-> [msg |-> "could not be created",
                             about |-> il[c].directory, source |-> "io::Error"]])
            /\ ~il[c].installed
            /\ ~il[c].touched
            /\ UNCHANGED <<traceVars, logVars, dirs>>]_vars
  /\ []((/\ \A c \in Contexts : pc[c] = "idle"
         /\ \A i \in DOMAIN init_results : IsCreateDirFailure(init_results[i])) =>
           /\ ~tui_logger /\ subscriber = <<>> /\ guard = "none"
           /\ ~TRACING_ENABLED /\ TRACE_FILE_NAME = <<>> /\ DOMAIN files = {})

\* a call asking for tracing failed to create the directory, and the next
\* call, with the directory creatable, succeeded and enabled tracing
C15_Witness ==
  /\ Len(init_results) = 2
  /\ IsCreateDirFailure(init_results[1])
  /\ init_results[1].enable_tracing
  /\ init_results[2].ok
  /\ init_results[2].enable_tracing
  /\ TRACING_ENABLED
  /\ tui_logger

\* the statement of log_perf_event that context c is at did what it is for:
\* the file is open (made if it was missing), the event or its separator is
\* at the end of the file, and after the last write the call has returned
LpStepDone(c) ==
  CASE pc[c] = "lp121" ->
         /\ pc'[c] = "lp122"
         /\ lp[c].log_path \in DOMAIN files'
    [] pc[c] = "lp122" ->
         /\ pc'[c] = "lp123"
         /\ files'[lp[c].log_path] = files[lp[c].log_path] \o lp[c].event
    [] pc[c] = "lp123" ->
         /\ pc'[c] = "idle"
         /\ files'[lp[c].log_path] = files[lp[c].log_path] \o <<Separator>>
         /\ Len(returned') = Len(returned) + 1
    [] OTHER -> FALSE

\* C16: with tracing enabled, a log_perf_event call leaves its open and its
\* two writes either done or by a panic: it never returns, nor goes on, with
\* the open or a write failed.  With the hook installed the panic enters the
\* hook, and from there the process is terminated with the failure status
\* after a terminal restoration attempt and a crash report.
C16_TraceWriteErrorsFatal ==
  /\ [][\A c \in Contexts :
          (pc[c] \in {"lp121", "lp122", "lp123"} /\ pc'[c] # pc[c]) =>
            \/ LpStepDone(c)
            \/ /\ pc'[c] = IF hook THEN "ph28" ELSE "unwound"
               /\ returned' = returned
               /\ files' = files]_vars
  /\ \A c \in Contexts :
       (hook /\ pc[c] = "ph28") ~>
         (/\ exit_status = <<EXIT_FAILURE>>
          /\ \E d \in Contexts :
               /\ IsRestore(FirstStep(hook_log[d]))
               /\ \E i \in DOMAIN stderr : stderr[i] = d)

\* the background context's first write went through and its second failed:
\* no call has returned, the file ends with an object without its separator,
\* and the context went through a failed restoration and the report to the
\* exit
C16_Witness ==
  /\ pc["bg"] = "exited"
  /\ hook_log["bg"] = <<"restore failed", "error!", "report", "exit">>
  /\ exit_status = <<EXIT_FAILURE>>
  /\ returned = <<>>
  /\ TRACING_ENABLED
  /\ TRACE_FILE_NAME # <<>>
  /\ TRACE_FILE_NAME[1] \in DOMAIN files
  /\ Len(files[TRACE_FILE_NAME[1]]) = 3
  /\ files[TRACE_FILE_NAME[1]][1] = OpenMarker
  /\ files[TRACE_FILE_NAME[1]][3].k = "body"

\* --- enabling tracing

\* C17: whenever TRACING_ENABLED is true the trace file exists and starts
\* with the "[" line, so no context that loads the flag as true writes an
\* event into a file without the marker or ahead of it.
C17_MarkerBeforeFlag ==
  TRACING_ENABLED =>
    /\ TRACE_FILE_NAME # <<>>
    /\ TRACE_FILE_NAME[1] \in DOMAIN files
    /\ files[TRACE_FILE_NAME[1]] # <<>>
    /\ files[TRACE_FILE_NAME[1]][1] = OpenMarker

====
